---- MODULE Spec2Model ----
\* A model of karel/KarelWorld.py: the world-file parser (parse_line), the
\* keyword dispatch of load_from_file, the beeper and wall operations, and the
\* load / reset / reload lifecycle of a KarelWorld object.
EXTENDS Integers, Sequences, FiniteSets, TLC

VARIABLES
    self,      \* the KarelWorld object: attribute name -> value (<<>> before __init__)
    heap,      \* the dicts the object refers to: reference -> (cell -> count)
    raised,    \* the exception the last call ended with, or "none"
    call,      \* the last call made on the object (its name, arguments, what it saw)
    captured,  \* the beepers mapping as it was at the end of the last completed load
    wall_lines \* the walls named by the Wall lines the last load processed

vars == <<self, heap, raised, call, captured, wall_lines>>

----------------------------------------------------------------------------
\* Bounds of the model.

\* The longest world file the lifecycle specification reloads.
MaxLines == 2
\* The longest world file the construction specification loads.
MaxFileLen == 3
\* add_beeper is not called on a cell that already holds this many beepers.
MaxCount == 2

----------------------------------------------------------------------------
\* karel/kareldefinitions.py (imported with *, not part of the sources).

INIT_SPEED == 50
INFINITY == -1
VALID_WORLD_KEYWORDS == {"dimension", "wall", "beeper", "karel", "speed", "beeperbag"}
VALID_DIRECTIONS == {"east", "west", "north", "south"}
DIRECTIONS_MAP ==
    [d \in VALID_DIRECTIONS |->
        CASE d = "east" -> "EAST" [] d = "west" -> "WEST"
          [] d = "north" -> "NORTH" [] d = "south" -> "SOUTH"]
Direction == {DIRECTIONS_MAP[d] : d \in VALID_DIRECTIONS}
\* Wall(avenue, street, direction): a record compared by value.
Wall(avenue, street, direction) == <<avenue, street, direction>>

----------------------------------------------------------------------------
\* The text of a world file.  A line is the text before its first ":" (head)
\* and the ";"-separated tokens of what follows up to the next ":"; a line
\* with no ":" has colon = FALSE.  A token is one of four shapes of text:
\*   word    any text that is neither of the three below (text holds it)
\*   coord   "(a, s)" with a and s written in digits
\*   digits  a run of digits, the number n
\*   decimal a signed decimal with two fraction digits, (-)n/100

Word(text) == [form |-> "word", text |-> text, a |-> 0, s |-> 0, n |-> 0, neg |-> FALSE]
Coord(a, s) == [form |-> "coord", text |-> "", a |-> a, s |-> s, n |-> 0, neg |-> FALSE]
Digits(n) == [form |-> "digits", text |-> "", a |-> 0, s |-> 0, n |-> n, neg |-> FALSE]
Decimal(neg, n) == [form |-> "decimal", text |-> "", a |-> 0, s |-> 0, n |-> n, neg |-> neg]

Line(head, params) == [colon |-> TRUE, head |-> head, params |-> params]
NoColon(text) == [colon |-> FALSE, head |-> text, params |-> <<>>]

\* str.lower() on the texts the model uses.
lower(text) ==
    CASE text = "Dimension" -> "dimension"
      [] text = "Wall" -> "wall"
      [] text = "WALL" -> "wall"
      [] text = "Beeper" -> "beeper"
      [] text = "Karel" -> "karel"
      [] text = "Speed" -> "speed"
      [] text = "BeeperBag" -> "beeperbag"
      [] text = "Robot" -> "robot"
      [] text = "East" -> "east"
      [] text = "West" -> "west"
      [] text = "North" -> "north"
      [] text = "SOUTH" -> "south"
      [] text = "Infinity" -> "infinity"
      [] text = "INFINITE" -> "infinite"
      [] text = "Inf" -> "inf"
      [] OTHER -> text

----------------------------------------------------------------------------
\* int(100 * float(param)) for a decimal token, in IEEE-754 double arithmetic.
\* float(param) is the double nearest to n/100: a 53-bit M with
\* n * 2^P = 100 * Q + R and M = Q or Q + 1 (round to nearest, ties to even),
\* where P = 52 - e and 100 * 2^e <= n < 200 * 2^e.  The exact product
\* 100 * M is n * 2^P + D with D = 100 * (M - Q) - R, and it is rounded to 53
\* bits again: to a multiple of 64 when it is below 2^59, of 128 otherwise.
\* n * 2^P is such a multiple, so the rounded product falls below n * 2^P,
\* and int() truncates it to n - 1, exactly when the grid is 64 and D < -32.

RECURSIVE Pow2(_)
Pow2(k) == IF k = 0 THEN 1 ELSE 2 * Pow2(k - 1)

\* 2^k modulo 200
RECURSIVE Pow2Mod200(_)
Pow2Mod200(k) == IF k = 0 THEN 1 ELSE (2 * Pow2Mod200(k - 1)) % 200

\* the binary exponent e of n/100 (n >= 1): 100 * 2^e <= n < 200 * 2^e
RECURSIVE Exponent(_, _)
Exponent(n, e) ==
    IF e >= 0
    THEN IF n >= 200 * Pow2(e) THEN Exponent(n, e + 1)
         ELSE IF n < 100 * Pow2(e) THEN Exponent(n, e - 1)
         ELSE e
    ELSE IF n * Pow2(-e) < 100 THEN Exponent(n, e - 1)
         ELSE IF n * Pow2(-e) >= 200 THEN Exponent(n, e + 1)
         ELSE e

int_100_float_abs(n) ==
    IF n = 0 THEN 0
    ELSE LET e == Exponent(n, 0)
             T == (n * Pow2Mod200(52 - e)) % 200
             R == T % 100
             up == R > 50 \/ (R = 50 /\ T >= 100)
             D == (IF up THEN 100 ELSE 0) - R
             below2p59 == 7 + e >= 0 /\ (n < Pow2(7 + e) \/ (n = Pow2(7 + e) /\ D < 0))
         IN IF below2p59 /\ D < -32 THEN n - 1 ELSE n

int_100_float(tok) ==
    IF tok.neg THEN 0 - int_100_float_abs(tok.n) ELSE int_100_float_abs(tok.n)

----------------------------------------------------------------------------
\* parse_line.  params is the dict the code builds: a function whose domain
\* is the set of keys present, among "dir", "loc" and "val".

NoParams == [k \in {} |-> 0]

\* (a variant in which the first token of a class is kept, not the last)
parse_param_first_wins(tok, acc) ==
    LET param == lower(tok.text)
        put(k, v) == [acc EXCEPT !.params = @ @@ (k :> v)]
    IN IF tok.form = "word" /\ param \in VALID_DIRECTIONS
       THEN put("dir", DIRECTIONS_MAP[param])
       ELSE IF tok.form = "coord"
       THEN put("loc", <<tok.a, tok.s>>)
       ELSE IF tok.form = "digits"
       THEN put("val", tok.n)
       ELSE IF acc.keyword = "speed"
       THEN IF tok.form = "decimal"
            THEN put("val", int_100_float(tok))
            ELSE IF param \in {"inf", "infinity"}
            THEN [acc EXCEPT !.raised = "OverflowError"]
            ELSE acc
       ELSE IF acc.keyword = "beeperbag"
       THEN IF param \in {"infinity", "infinite"}
            THEN put("val", INFINITY)
            ELSE acc
       ELSE acc

\* One round of the loop over param_list: the token's effect on the result
\* so far (its params), or the exception it raises.
parse_param(tok, acc) ==
    LET param == lower(tok.text)
        put(k, v) == [acc EXCEPT !.params = (k :> v) @@ @]
    IN IF tok.form = "word" /\ param \in VALID_DIRECTIONS
       THEN put("dir", DIRECTIONS_MAP[param])
       ELSE IF tok.form = "coord"
       THEN put("loc", <<tok.a, tok.s>>)
       ELSE IF tok.form = "digits"
       THEN put("val", tok.n)
       ELSE IF acc.keyword = "speed"
       THEN IF tok.form = "decimal"
            THEN put("val", int_100_float(tok))
            ELSE IF param \in {"inf", "infinity"}
            \* float() accepts it and int() of an infinity raises
            THEN [acc EXCEPT !.raised = "OverflowError"]
            \* ValueError (float() of other text, int() of a nan): continue
            ELSE acc
       ELSE IF acc.keyword = "beeperbag"
       THEN IF param \in {"infinity", "infinite"}
            THEN put("val", INFINITY)
            ELSE acc
       ELSE acc

RECURSIVE parse_params(_, _, _)
parse_params(param_list, i, acc) ==
    IF i > Len(param_list) \/ acc.raised # "none" THEN acc
    ELSE parse_params(param_list, i + 1, parse_param(param_list[i], acc))

\* What parse_line returns (keyword, params, is_valid), and the exception
\* that ended it instead, if any.
parse_line(line) ==
    LET keyword == lower(line.head)
        result(k, valid) == [keyword |-> k, params |-> NoParams, is_valid |-> valid,
                             raised |-> "none"]
    IN IF ~line.colon THEN result("", FALSE)
       ELSE IF keyword \notin VALID_WORLD_KEYWORDS THEN result("", FALSE)
       ELSE parse_params(line.params, 1, result(keyword, TRUE))

----------------------------------------------------------------------------
\* The object and its dicts.  A running call is a record st of the object's
\* attributes (st.self), the heap (st.heap), the exception raised so far
\* (st.raised) and the number of lines read from the world file (st.read).
\* self.beepers and self.init_beepers are references into the heap; a dict
\* is a function whose domain is the set of keys it holds.

EmptyDict == [c \in {} |-> 0]

\* collections.defaultdict(int): the count of a cell, zero for a missing key
Count(dict, cell) == IF cell \in DOMAIN dict THEN dict[cell] ELSE 0

\* the first reference not in use
NewRef(h) ==
    CHOOSE r \in 0..Cardinality(DOMAIN h) :
        r \notin DOMAIN h /\ \A q \in 0..(r - 1) : q \in DOMAIN h

\* Dicts no attribute refers to any more are freed.  A reference is an
\* address and means nothing beyond which dict it names: the surviving dicts
\* are renumbered, self.beepers first.
Rename(obj, r) ==
    IF "beepers" \in DOMAIN obj /\ r = obj.beepers THEN 0
    ELSE IF "beepers" \in DOMAIN obj THEN 1
    ELSE 0

Collect(st) ==
    LET obj == st.self
        live == {obj[k] : k \in {"beepers", "init_beepers"} \cap DOMAIN obj}
    IN [st EXCEPT
          !.self = [k \in DOMAIN obj |->
                       IF k \in {"beepers", "init_beepers"} THEN Rename(obj, obj[k])
                       ELSE obj[k]],
          !.heap = [n \in {Rename(obj, r) : r \in live} |->
                       st.heap[CHOOSE r \in live : Rename(obj, r) = n]]]

\* self.<attr> = <a new dict holding dict>
BindNew(st, attr, dict) ==
    LET r == NewRef(st.heap)
    IN Collect([st EXCEPT !.self = (attr :> r) @@ st.self,
                          !.heap = (r :> dict) @@ st.heap])

Raise(st, exc) == [st EXCEPT !.raised = exc]

\* (a variant that stores n instead of adding it)
AddCount_overwrite(st, cell, n) ==
    [st EXCEPT !.heap[st.self.beepers] = (cell :> n) @@ st.heap[st.self.beepers]]

\* self._beepers[cell] += n
AddCount(st, cell, n) ==
    LET d == st.heap[st.self.beepers]
    IN [st EXCEPT !.heap[st.self.beepers] = (cell :> (Count(d, cell) + n)) @@ d]

\* self._beepers[cell], read: a defaultdict inserts the missing key
Touch(st, cell) == AddCount(st, cell, 0)

----------------------------------------------------------------------------
\* load_from_file

\* The if/elif chain over the keyword of a valid line.  A parameter the line
\* did not carry is a key missing from params: params["..."] raises KeyError.
dispatch(st, keyword, params) ==
    LET has(k) == k \in DOMAIN params
    IN CASE keyword = "dimension" ->
              IF ~has("loc") THEN Raise(st, "KeyError")
              ELSE [st EXCEPT !.self.num_avenues = params["loc"][1],
                              !.self.num_streets = params["loc"][2]]
         [] keyword = "wall" ->
              IF ~has("loc") \/ ~has("dir") THEN Raise(st, "KeyError")
              ELSE [st EXCEPT !.self.walls =
                        @ \cup {Wall(params["loc"][1], params["loc"][2], params["dir"])}]
         [] keyword = "beeper" ->
              IF ~has("loc") \/ ~has("val") THEN Raise(st, "KeyError")
              ELSE AddCount(st, params["loc"], params["val"])
         [] keyword = "karel" ->
              IF ~has("loc") \/ ~has("dir") THEN Raise(st, "KeyError")
              ELSE [st EXCEPT !.self.karel_starting_location = params["loc"],
                              !.self.karel_starting_direction = params["dir"]]
         [] keyword = "beeperbag" ->
              IF ~has("val") THEN Raise(st, "KeyError")
              ELSE [st EXCEPT !.self.karel_starting_beeper_count = params["val"]]
         [] keyword = "speed" ->
              IF ~has("val") THEN Raise(st, "KeyError")
              ELSE [st EXCEPT !.self.init_speed = params["val"]]

\* (a variant in which a Dimension line takes down the walls built so far)
load_parsed_dimension_clears(st, p) ==
    IF p.raised # "none" THEN Raise(st, p.raised)
    ELSE IF ~p.is_valid THEN st
    ELSE IF p.keyword = "dimension"
    THEN dispatch([st EXCEPT !.self.walls = {}], p.keyword, p.params)
    ELSE dispatch(st, p.keyword, p.params)

\* One round of the loop over the lines of the file, p being what
\* parse_line made of the line.
load_parsed(st, p) ==
    IF p.raised # "none" THEN Raise(st, p.raised)
    ELSE IF ~p.is_valid THEN st
    ELSE dispatch(st, p.keyword, p.params)

load_line(st, line) == load_parsed(st, parse_line(line))

\* The loop over the lines of self._world_file: lines is what the file
\* yields, st.read the number of lines taken from it so far.  An exception
\* ends the loop.
RECURSIVE load_lines(_, _, _)
load_lines(st, lines, i) ==
    IF i > Len(lines) \/ st.raised # "none" THEN st
    ELSE load_lines(load_line([st EXCEPT !.read = i], lines[i]), lines, i + 1)

load_from_file(st, lines) == load_lines(st, lines, 1)

----------------------------------------------------------------------------
\* The methods of KarelWorld, each from the state of the call's start to the
\* state at its return (or at the exception that ends it).

\* What a constructor or reload_world is given: None, a file of lines, or
\* the name of a file that cannot be opened.  The object keeps the open file
\* (self.world_file is "file"), not its text: the lines are read from it
\* during the load and belong to the file system.
None == [kind |-> "none", lines |-> <<>>]
File(lines) == [kind |-> "file", lines |-> lines]
Missing == [kind |-> "missing", lines |-> <<>>]

\* self.<attr> = copy.deepcopy(self.<from>)
deepcopy_to(st, attr, from) == BindNew(st, attr, st.heap[st.self[from]])

\* (a variant that takes the snapshot also when the load raised)
save_init_beepers_always(st) == deepcopy_to(st, "init_beepers", "beepers")

\* (a variant that binds the snapshot to the live dict, with no copy)
save_init_beepers_alias(st) ==
    IF st.raised # "none" THEN st
    ELSE Collect([st EXCEPT !.self = ("init_beepers" :> st.self.beepers) @@ st.self])

\* self._init_beepers = copy.deepcopy(self._beepers), the last statement of
\* __init__ and of reload_world: not reached when the load raised.
save_init_beepers(st) ==
    IF st.raised # "none" THEN st
    ELSE deepcopy_to(st, "init_beepers", "beepers")

\* __init__ up to the test of self._world_file: the attributes of a new object
init_attributes(world_file) ==
    BindNew([self |-> [world_file |-> world_file.kind,
                       walls |-> {},
                       num_streets |-> 1,
                       num_avenues |-> 1,
                       karel_starting_location |-> <<1, 1>>,
                       karel_starting_direction |-> "EAST",
                       karel_starting_beeper_count |-> 0,
                       init_speed |-> INIT_SPEED],
             heap |-> EmptyDict,
             raised |-> "none",
             read |-> 0],
            "beepers", EmptyDict)

load_if_given(st, world_file) ==
    IF st.self.world_file # "none" THEN load_from_file(st, world_file.lines) ELSE st

\* KarelWorld(world_file): __init__ on an object with no attributes yet
KarelWorld(world_file) ==
    save_init_beepers(load_if_given(init_attributes(world_file), world_file))

add_beeper(st, avenue, street) == AddCount(st, <<avenue, street>>, 1)

\* (a variant with no test for an empty cell)
remove_if_any_unguarded(st, cell) == AddCount(st, cell, -1)

\* (a variant that empties the cell instead of taking one beeper)
remove_if_any_all(st, cell) ==
    [st EXCEPT !.heap[st.self.beepers] = (cell :> 0) @@ st.heap[st.self.beepers]]

\* remove_beeper once the test has read self._beepers[cell]
remove_if_any(st, cell) ==
    IF st.heap[st.self.beepers][cell] = 0 THEN st
    ELSE AddCount(st, cell, -1)

remove_beeper(st, avenue, street) ==
    remove_if_any(Touch(st, <<avenue, street>>), <<avenue, street>>)

\* (a variant that does not look at the direction)
wall_exists_any_direction(obj, avenue, street, direction) ==
    \E d \in Direction : Wall(avenue, street, d) \in obj.walls

wall_exists(obj, avenue, street, direction) ==
    Wall(avenue, street, direction) \in obj.walls

\* (a variant that counts from zero)
in_bounds_from_zero(obj, avenue, street) ==
    avenue >= 0 /\ street >= 0 /\ avenue <= obj.num_avenues /\ street <= obj.num_streets

in_bounds(obj, avenue, street) ==
    avenue > 0 /\ street > 0 /\ avenue <= obj.num_avenues /\ street <= obj.num_streets

\* (a variant that binds the snapshot itself instead of a copy of it)
reset_world_alias(st) == Collect([st EXCEPT !.self.beepers = st.self.init_beepers])

\* (a variant that copies the other way round)
reset_world_backwards(st) == deepcopy_to(st, "init_beepers", "beepers")

reset_world(st) == deepcopy_to(st, "beepers", "init_beepers")

\* (a variant that keeps the walls)
reset_attributes_keep_walls(st) ==
    [BindNew(st, "beepers", EmptyDict) EXCEPT
        !.self.num_streets = 1,
        !.self.num_avenues = 1,
        !.self.karel_starting_location = <<1, 1>>,
        !.self.karel_starting_direction = "EAST",
        !.self.karel_starting_beeper_count = 0,
        !.self.init_speed = INIT_SPEED]

\* reload_world from the second statement to the call of load_from_file
reset_attributes(st) ==
    [BindNew(st, "beepers", EmptyDict) EXCEPT
        !.self.walls = {},
        !.self.num_streets = 1,
        !.self.num_avenues = 1,
        !.self.karel_starting_location = <<1, 1>>,
        !.self.karel_starting_direction = "EAST",
        !.self.karel_starting_beeper_count = 0,
        !.self.init_speed = INIT_SPEED]

\* (a variant that clears the attributes before it opens the file)
reload_world_reset_first(st, filename) ==
    IF filename.kind # "file" THEN Raise(reset_attributes(st), "FileNotFoundError")
    ELSE save_init_beepers(load_from_file(reset_attributes(
            [st EXCEPT !.self.world_file = filename.kind]), filename.lines))

reload_world(st, filename) ==
    IF filename.kind # "file" THEN Raise(st, "FileNotFoundError")
    ELSE save_init_beepers(load_from_file(reset_attributes(
            [st EXCEPT !.self.world_file = filename.kind]), filename.lines))

----------------------------------------------------------------------------
\* The inputs.

\* The lines the lifecycle specification builds its world files from: one
\* line of every keyword, and a Wall line with no direction.
Lines ==
    { Line("Dimension", <<Coord(2, 1)>>),
      Line("Wall", <<Coord(1, 1), Word("North")>>),
      Line("Beeper", <<Coord(1, 1), Digits(2)>>),
      Line("Karel", <<Coord(2, 1), Word("West")>>),
      Line("BeeperBag", <<Word("Infinity")>>),
      Line("Speed", <<Decimal(FALSE, 50)>>),
      Line("Wall", <<Coord(2, 1)>>) }

\* The lines the construction specification builds its world files from.
AllLines ==
    { NoColon("# a world"),
      Line("Robot", <<Coord(1, 1), Word("North")>>),
      Line("Dimension", <<Coord(2, 3)>>),
      Line("Dimension", <<Coord(0, 2)>>),
      Line("Wall", <<Coord(1, 1), Word("North")>>),
      Line("WALL", <<Word("East"), Coord(2, 1)>>),
      Line("Wall", <<Coord(2, 1)>>),
      Line("Beeper", <<Coord(1, 1), Digits(2)>>),
      Line("Beeper", <<Coord(1, 1), Digits(1)>>),
      Line("Beeper", <<Coord(2, 1), Digits(0)>>),
      Line("Beeper", <<Coord(1, 1), Word("abc")>>),
      Line("Beeper", <<Coord(1, 1), Digits(2), Word("abc")>>),
      Line("Beeper", <<Coord(1, 1), Coord(2, 1), Digits(1), Digits(2)>>),
      Line("Karel", <<Coord(2, 1), Word("West")>>),
      Line("Karel", <<Coord(1, 2), Word("SOUTH")>>),
      Line("Karel", <<Coord(1, 1), Word("East"), Coord(2, 1), Word("North")>>),
      Line("BeeperBag", <<Word("Infinity")>>),
      Line("BeeperBag", <<Digits(3)>>),
      Line("Speed", <<Decimal(FALSE, 50)>>),
      Line("Speed", <<Decimal(FALSE, 29)>>),
      Line("Speed", <<Digits(2)>>),
      Line("Speed", <<Word("Inf")>>),
      Line("Speed", <<Word("fast")>>),
      Line("Speed", <<Decimal(FALSE, 29), Word("fast")>>) }

\* The world files of at most n lines drawn from a set of lines.
WorldFiles(lines, n) == {File(f) : f \in UNION {[1..k -> lines] : k \in 0..n}}

\* The cells add_beeper and remove_beeper are called on, one of them outside
\* the default 1 x 1 world: neither method looks at the dimensions.
Cells == {<<1, 1>>, <<2, 1>>}

----------------------------------------------------------------------------
\* The state machine.

State == [self |-> self, heap |-> heap, raised |-> "none", read |-> 0]

Becomes(st) ==
    /\ self' = st.self
    /\ heap' = st.heap
    /\ raised' = st.raised

\* the record of a call that names no cell and no file
Called(op) ==
    [op |-> op, file |-> None, avenue |-> 0, street |-> 0, before |-> 0,
     after_add |-> FALSE, add_before |-> 0, stale |-> FALSE,
     after_reset |-> FALSE, after_abort |-> FALSE]

\* The lines of a file the load that ended in st took from it.
Taken(lines, st) == SubSeq(lines, 1, st.read)

\* A Wall line as the file format has it: the keyword in any case, a
\* location and a direction; the last of each counts.
IsLocation(tok) == tok.form = "coord"
IsDirection(tok) == tok.form = "word" /\ lower(tok.text) \in VALID_DIRECTIONS
IsCount(tok) == tok.form = "digits"
\* tok fills the parameter key: "loc", "dir" or "val"
Is(key, tok) ==
    CASE key = "loc" -> IsLocation(tok)
      [] key = "dir" -> IsDirection(tok)
      [] key = "val" -> IsCount(tok)
Last(toks, key) ==
    toks[CHOOSE i \in 1..Len(toks) :
            Is(key, toks[i]) /\ \A j \in (i + 1)..Len(toks) : ~Is(key, toks[j])]
Has(toks, key) == \E i \in 1..Len(toks) : Is(key, toks[i])

IsWallLine(line) ==
    /\ line.colon
    /\ lower(line.head) = "wall"
    /\ Has(line.params, "loc")
    /\ Has(line.params, "dir")

WallOf(line) ==
    <<Last(line.params, "loc").a, Last(line.params, "loc").s,
      DIRECTIONS_MAP[lower(Last(line.params, "dir").text)]>>

WallLines(lines) ==
    {WallOf(lines[i]) : i \in {j \in 1..Len(lines) : IsWallLine(lines[j])}}

\* the beepers mapping and the snapshot, as mappings
Beepers == heap[self.beepers]
InitBeepers == heap[self.init_beepers]

\* The state after construction: KarelWorld() or KarelWorld(world_file), for
\* a world file the constructor returns from.
Init ==
    \E f \in {None} \cup WorldFiles(Lines, MaxLines) :
        \E st \in {KarelWorld(f)} :
            /\ st.raised = "none"
            /\ self = st.self
            /\ heap = st.heap
            /\ raised = "none"
            /\ call = [Called("__init__") EXCEPT !.file = f]
            /\ captured = st.heap[st.self.beepers]
            /\ wall_lines = WallLines(Taken(f.lines, st))

AddBeeper(avenue, street) ==
    /\ Count(Beepers, <<avenue, street>>) < MaxCount
    /\ Becomes(add_beeper(State, avenue, street))
    /\ call' = [Called("add_beeper") EXCEPT
                   !.avenue = avenue, !.street = street,
                   !.before = Count(Beepers, <<avenue, street>>),
                   !.after_reset = (call.op = "reset_world")]
    /\ UNCHANGED <<captured, wall_lines>>

\* The record of a remove_beeper call notes whether it follows an add_beeper
\* on the same cell, and the count that cell had before the add.  The
\* records of add_beeper and remove_beeper note whether the call follows a
\* reset_world.
RemoveBeeper(avenue, street) ==
    LET follows == /\ call.op = "add_beeper"
                   /\ call.avenue = avenue
                   /\ call.street = street
    IN /\ Becomes(remove_beeper(State, avenue, street))
       /\ call' = [Called("remove_beeper") EXCEPT
                      !.avenue = avenue, !.street = street,
                      !.before = Count(Beepers, <<avenue, street>>),
                      !.after_add = follows,
                      !.add_before = IF follows THEN call.before ELSE 0,
                      !.after_reset = (call.op = "reset_world")]
       /\ UNCHANGED <<captured, wall_lines>>

\* The record of a reset_world or reload_world call notes whether the beepers
\* mapping had moved away from the last load's when the call was made; that
\* of a reset_world, whether it follows a reload_world that ended in KeyError.
ResetWorld ==
    /\ Becomes(reset_world(State))
    /\ call' = [Called("reset_world") EXCEPT
                   !.stale = Beepers # captured,
                   !.after_abort = (call.op = "reload_world" /\ raised = "KeyError")]
    /\ UNCHANGED <<captured, wall_lines>>

ReloadWorld(filename) ==
    \E st \in {reload_world(State, filename)} :
        /\ Becomes(st)
        /\ call' = [Called("reload_world") EXCEPT
                       !.file = filename, !.stale = Beepers # captured]
        /\ captured' = IF st.raised = "none" THEN st.heap[st.self.beepers]
                       ELSE captured
        /\ wall_lines' = IF filename.kind # "file" THEN wall_lines
                         ELSE WallLines(Taken(filename.lines, st))

Next ==
    \/ \E c \in Cells : AddBeeper(c[1], c[2])
    \/ \E c \in Cells : RemoveBeeper(c[1], c[2])
    \/ ResetWorld
    \/ \E f \in {Missing} \cup WorldFiles(Lines, MaxLines) : ReloadWorld(f)

Spec == Init /\ [][Next]_vars

----------------------------------------------------------------------------
\* Construction on its own: an object with no attributes yet, and __init__
\* run once on it with a world file (or None).  A constructor that raises
\* leaves the attributes it had set, and raised names the exception.

New ==
    /\ self = <<>>
    /\ heap = <<>>
    /\ raised = "none"
    /\ call = Called("new")
    /\ captured = EmptyDict
    /\ wall_lines = {}

Construct(world_file) ==
    /\ \E st \in {KarelWorld(world_file)} :
        /\ Becomes(st)
        /\ call' = [Called("__init__") EXCEPT !.file = world_file]
        /\ captured' = IF st.raised = "none" THEN st.heap[st.self.beepers]
                       ELSE captured
        /\ wall_lines' = WallLines(Taken(world_file.lines, st))

NextLoad ==
    /\ call.op = "new"
    /\ \E f \in {None} \cup WorldFiles(AllLines, MaxFileLen) : Construct(f)

SpecLoad == New /\ [][NextLoad]_vars

----------------------------------------------------------------------------
\* What the properties below read.

\* the state the last call ended in, as a call record
Now == [State EXCEPT !.raised = raised]

\* The attributes of the object, with the two mappings in place of the
\* references to them.
View(st) ==
    [k \in DOMAIN st.self |->
        IF k \in {"beepers", "init_beepers"} THEN st.heap[st.self[k]]
        ELSE st.self[k]]

\* the last call was a load that ran to its end
Loaded(op) == call.op = op /\ raised = "none"

\* the cell the last add_beeper or remove_beeper was called on
CalledCell == <<call.avenue, call.street>>

\* coordinates and arguments the properties range over
Coordinates == 0..3
Arguments == -1..3

----------------------------------------------------------------------------
\* C1: after reset_world, the beepers mapping is exactly the mapping that
\* was captured at the end of the most recent completed load (construction
\* or reload_world), whatever add_beeper, remove_beeper and reset_world calls
\* came in between.
C1_ResetRestoresLoad == call.op = "reset_world" => Beepers = captured

\* a reset_world that found the mapping changed and restored a non-empty one
C1_Witness == call.op = "reset_world" /\ call.stale /\ captured # EmptyDict

\* C2: after a completed reload_world(S), every attribute (the beepers and
\* init_beepers mappings included) has the value it has in KarelWorld(S),
\* a world newly constructed from S.
C2_ReloadEqualsFresh ==
    Loaded("reload_world") => View(Now) = View(KarelWorld(call.file))

\* a completed reload_world of a two-line file, called when add_beeper or
\* remove_beeper had changed the mapping, that left a wall and a beeper
C2_Witness ==
    /\ Loaded("reload_world")
    /\ call.stale
    /\ Len(call.file.lines) = 2
    /\ self.walls # {}
    /\ Beepers # EmptyDict

\* C3: in every reachable state every count, in the beepers mapping and in
\* the snapshot, is at least zero.
C3_CountsNonNegative ==
    \A r \in DOMAIN heap : \A cell \in DOMAIN heap[r] : heap[r][cell] >= 0

\* remove_beeper was called on a cell that held no beeper
C3_Witness ==
    /\ call.op = "remove_beeper"
    /\ call.before = 0
    /\ Count(Beepers, CalledCell) = 0

\* C4: after every load, whatever Dimension lines the file holds,
\* num_avenues >= 1 and num_streets >= 1.
C4_DimensionsAtLeastOne ==
    call.op = "__init__" => self.num_avenues >= 1 /\ self.num_streets >= 1

\* A malformed line as the file format has it: no ":", a keyword that is
\* not one of the six, or a recognised keyword with a parameter token that
\* is no direction, no location and no number the keyword takes.
IsNumber(keyword, tok) ==
    \/ tok.form = "digits"
    \/ keyword = "speed" /\ tok.form = "decimal"
    \/ keyword = "beeperbag" /\ tok.form = "word"
                             /\ lower(tok.text) \in {"infinity", "infinite"}

Unparsable(keyword, tok) ==
    ~IsDirection(tok) /\ ~IsLocation(tok) /\ ~IsNumber(keyword, tok)

Malformed(line) ==
    \/ ~line.colon
    \/ lower(line.head) \notin VALID_WORLD_KEYWORDS
    \/ \E i \in 1..Len(line.params) : Unparsable(lower(line.head), line.params[i])

\* a file without its i-th line
Without(lines, i) == SubSeq(lines, 1, i - 1) \o SubSeq(lines, i + 1, Len(lines))

\* how a call ended: the exception, if any, and the attributes
Outcome(st) == [raised |-> st.raised, world |-> View(st)]

\* C5: a load never ends in an exception because of a malformed line: the
\* line is skipped, the load goes on, and it ends as the load of the same
\* file without that line ends.
C5_MalformedLinesSkipped ==
    call.op = "__init__" =>
        \A i \in 1..Len(call.file.lines) :
            Malformed(call.file.lines[i]) =>
                Outcome(Now) = Outcome(KarelWorld(File(Without(call.file.lines, i))))

\* A Beeper line as the file format has it: the keyword in any case, a
\* location and a count; the last of each counts.
IsBeeperLine(line) ==
    /\ line.colon
    /\ lower(line.head) = "beeper"
    /\ Has(line.params, "loc")
    /\ Has(line.params, "val")

\* the sum of the counts of the Beeper lines of a file that name a cell
RECURSIVE BeeperSum(_, _)
BeeperSum(lines, cell) ==
    IF lines = <<>> THEN 0
    ELSE LET line == Head(lines)
             names == /\ IsBeeperLine(line)
                      /\ Last(line.params, "loc").a = cell[1]
                      /\ Last(line.params, "loc").s = cell[2]
         IN (IF names THEN Last(line.params, "val").n ELSE 0)
            + BeeperSum(Tail(lines), cell)

C8_InBoundsIffInRange ==
    \A a \in Arguments, s \in Arguments :
        in_bounds(self, a, s) <=>
            (1 <= a /\ a <= self.num_avenues /\ 1 <= s /\ s <= self.num_streets)

\* a reloaded 2 x 1 world: its last cell is in bounds, and zero, a negative
\* and a too large avenue are not
C8_Witness ==
    /\ call.op = "reload_world"
    /\ self.num_avenues = 2
    /\ in_bounds(self, 2, 1)
    /\ ~in_bounds(self, 0, 1)
    /\ ~in_bounds(self, -1, 1)
    /\ ~in_bounds(self, 3, 1)
    /\ ~in_bounds(self, 1, 2)

\* C9: remove_beeper right after add_beeper on the same cell leaves the
\* cell with the count it had before the add, when that count was above
\* zero; and remove_beeper on a cell with count zero leaves it at zero.
C9_AddRemoveRestores ==
    call.op = "remove_beeper" =>
        /\ (call.after_add /\ call.add_before > 0) =>
               Count(Beepers, CalledCell) = call.add_before
        /\ call.before = 0 => Count(Beepers, CalledCell) = 0

\* a remove_beeper right after an add_beeper on a cell that held a beeper
C9_Witness ==
    /\ call.op = "remove_beeper"
    /\ call.after_add
    /\ call.add_before > 0

\* the value of an attribute, a mapping for the two references
Attribute(k) == IF k \in {"beepers", "init_beepers"} THEN heap[self[k]] ELSE self[k]

\* C10: reset_world changes beepers only: the walls, the dimensions, the
\* starting location, direction and beeper count, init_speed and the
\* init_beepers mapping are after the call what they were before it.
C10_ResetChangesOnlyBeepers ==
    [][call'.op = "reset_world" =>
          /\ DOMAIN self' = DOMAIN self
          /\ \A k \in DOMAIN self \ {"beepers"} : Attribute(k)' = Attribute(k)]_vars

\* a reset_world that found the mapping changed, in a world with a wall
C10_Witness == call.op = "reset_world" /\ call.stale /\ self.walls # {}

----------------------------------------------------------------------------
\* The lines of a file that carry a keyword, and the last of them.
LinesOf(lines, keyword) ==
    {i \in 1..Len(lines) : lines[i].colon /\ lower(lines[i].head) = keyword}

LastOf(S) == CHOOSE i \in S : \A j \in S : j <= i

\* A delay as the file format has it: a non-negative number, written in
\* digits or with a decimal point; the last one of a line counts.
IsDelay(tok) == tok.form = "digits" \/ (tok.form = "decimal" /\ ~tok.neg)

LastDelay(toks) ==
    toks[CHOOSE i \in 1..Len(toks) :
            IsDelay(toks[i]) /\ \A j \in (i + 1)..Len(toks) : ~IsDelay(toks[j])]

\* int(100 * value) of a delay: of the number n it is 100 * n, of a decimal
\* it is what the double arithmetic makes of it
Hundredfold(tok) == IF tok.form = "digits" THEN 100 * tok.n ELSE int_100_float(tok)

\* C11: after a load, init_speed is the delay of the file's last Speed line
\* multiplied by 100 and truncated to an integer, whether the delay is
\* written with a decimal point (0.50) or as a plain integer (2).
C11_SpeedIsHundredfold ==
    (Loaded("__init__") /\ LinesOf(call.file.lines, "speed") # {}) =>
        \E line \in {call.file.lines[LastOf(LinesOf(call.file.lines, "speed"))]} :
            (\E i \in 1..Len(line.params) : IsDelay(line.params[i])) =>
                self.init_speed = Hundredfold(LastDelay(line.params))

----------------------------------------------------------------------------
\* A well-formed line as the file format has it: one of the six keywords,
\* no token that is neither direction, location nor number, and every
\* parameter the keyword needs.
Required(keyword) ==
    CASE keyword = "dimension" -> {"loc"}
      [] keyword = "wall" -> {"loc", "dir"}
      [] keyword = "beeper" -> {"loc", "val"}
      [] keyword = "karel" -> {"loc", "dir"}
      [] keyword = "beeperbag" -> {"val"}
      [] keyword = "speed" -> {"val"}

Carries(line, key) ==
    IF key = "val"
    THEN \E i \in 1..Len(line.params) : IsNumber(lower(line.head), line.params[i])
    ELSE Has(line.params, key)

WellFormed(line) ==
    /\ ~Malformed(line)
    /\ \A key \in Required(lower(line.head)) : Carries(line, key)

\* the last number of a line, and the value it stands for
LastNumber(keyword, toks) ==
    toks[CHOOSE i \in 1..Len(toks) :
            /\ IsNumber(keyword, toks[i])
            /\ \A j \in (i + 1)..Len(toks) : ~IsNumber(keyword, toks[j])]

NumberOf(tok) ==
    CASE tok.form = "digits" -> tok.n
      [] tok.form = "decimal" -> int_100_float(tok)
      [] tok.form = "word" -> INFINITY

\* The keywords whose lines overwrite, what the object holds for each, and
\* what a line of each gives.
Overwriting == {"dimension", "karel", "speed", "beeperbag"}

Held(keyword, obj) ==
    CASE keyword = "dimension" -> <<obj.num_avenues, obj.num_streets>>
      [] keyword = "karel" ->
            <<obj.karel_starting_location, obj.karel_starting_direction>>
      [] keyword = "speed" -> <<obj.init_speed>>
      [] keyword = "beeperbag" -> <<obj.karel_starting_beeper_count>>

GivenBy(keyword, line) ==
    CASE keyword = "dimension" ->
            <<Last(line.params, "loc").a, Last(line.params, "loc").s>>
      [] keyword = "karel" ->
            << <<Last(line.params, "loc").a, Last(line.params, "loc").s>>,
               DIRECTIONS_MAP[lower(Last(line.params, "dir").text)] >>
      [] keyword = "speed" -> <<NumberOf(LastNumber(keyword, line.params))>>
      [] keyword = "beeperbag" -> <<NumberOf(LastNumber(keyword, line.params))>>

\* the well-formed lines of a keyword in a file
WellFormedOf(lines, keyword) ==
    {i \in LinesOf(lines, keyword) : WellFormed(lines[i])}

\* C12: after a load, what the object holds for dimension, karel, speed and
\* beeperbag is what the last well-formed line of that keyword in the file
\* gives, and the value a new object has when the file has no such line.
C12_LastLineWins ==
    Loaded("__init__") =>
        \A keyword \in Overwriting :
            \E S \in {WellFormedOf(call.file.lines, keyword)} :
                Held(keyword, self) =
                    IF S = {} THEN Held(keyword, init_attributes(None).self)
                    ELSE GivenBy(keyword, call.file.lines[LastOf(S)])

----------------------------------------------------------------------------
\* C13: add_beeper, remove_beeper and reset_world leave the init_beepers
\* mapping as it was, also when they follow a reset_world; the live mapping
\* and the snapshot are never one dict; and every reset_world binds beepers
\* to a mapping equal to that unchanged snapshot, the second as the first.
C13_SnapshotChangedOnlyByLoad ==
    [][call'.op \in {"add_beeper", "remove_beeper", "reset_world"} =>
          /\ InitBeepers' = InitBeepers
          /\ self'.beepers # self'.init_beepers
          /\ call'.op = "reset_world" => Beepers' = InitBeepers]_vars

\* an add_beeper right after a reset_world that moved the live mapping away
\* from a non-empty snapshot
C13_Witness ==
    /\ call.op = "add_beeper"
    /\ call.after_reset
    /\ InitBeepers # EmptyDict
    /\ Beepers # InitBeepers

----------------------------------------------------------------------------
\* The rearrangements of a file that keep the lines of one keyword in the
\* order they have: p[k] is the place in the file of the k-th line of the
\* rearranged file.
Keyword(line) == lower(line.head)

KeepsKeywordOrder(lines, p) ==
    \A k \in 1..Len(lines), l \in 1..Len(lines) :
        (k < l /\ Keyword(lines[p[k]]) = Keyword(lines[p[l]])) => p[k] < p[l]

Rearranged(lines, p) == [k \in 1..Len(lines) |-> lines[p[k]]]

\* C14: the load of a file of well-formed lines ends as the load of every
\* rearrangement of the file that keeps the lines of one keyword in their
\* order: the same beepers, walls, dimensions, starting location, direction
\* and beeper count, and init_speed.
C14_OrderAcrossKeywords ==
    (call.op = "__init__"
        /\ call.file.kind = "file"
        /\ \A i \in 1..Len(call.file.lines) : WellFormed(call.file.lines[i])) =>
        \A p \in Permutations(1..Len(call.file.lines)) :
            KeepsKeywordOrder(call.file.lines, p) =>
                Outcome(KarelWorld(File(Rearranged(call.file.lines, p)))) = Outcome(Now)

\* a load of three well-formed lines, two Wall lines and a Dimension line
C14_Witness ==
    /\ Loaded("__init__")
    /\ Len(call.file.lines) = 3
    /\ \A i \in 1..3 : WellFormed(call.file.lines[i])
    /\ {Keyword(call.file.lines[i]) : i \in 1..3} = {"wall", "dimension"}
    /\ Cardinality(self.walls) = 2
    /\ self.num_avenues = 2

----------------------------------------------------------------------------
\* The params of a line as the file format has them: a key for every class
\* (direction, location, number) the line has a token of, with the value of
\* the last token of that class.
ParamsOf(line) ==
    [key \in {k \in {"dir", "loc", "val"} : Carries(line, k)} |->
        CASE key = "dir" -> DIRECTIONS_MAP[lower(Last(line.params, "dir").text)]
          [] key = "loc" -> <<Last(line.params, "loc").a, Last(line.params, "loc").s>>
          [] key = "val" -> NumberOf(LastNumber(Keyword(line), line.params))]

\* C15: of the tokens of a line, each one a direction, a location or a
\* number, only the last of each class takes effect: parse_line returns
\* its value and no other; so a Beeper line with several locations and
\* counts, loaded alone, leaves the last count at the last location and no
\* entry for any other location.
C15_LastTokenOfClassWins ==
    call.op = "__init__" =>
        /\ \A i \in 1..Len(call.file.lines) :
              \E p \in {parse_line(call.file.lines[i])} :
                  (p.is_valid /\ p.raised = "none") =>
                      p.params = ParamsOf(call.file.lines[i])
        /\ (raised = "none" /\ Len(call.file.lines) = 1
                /\ IsBeeperLine(call.file.lines[1])) =>
              Beepers = (ParamsOf(call.file.lines[1])["loc"]
                            :> ParamsOf(call.file.lines[1])["val"])

\* the load of one Beeper line with two locations and two counts
C15_Witness ==
    /\ Loaded("__init__")
    /\ Len(call.file.lines) = 1
    /\ IsBeeperLine(call.file.lines[1])
    /\ Len(call.file.lines[1].params) = 4
    /\ <<1, 1>> \notin DOMAIN Beepers
    /\ Count(Beepers, <<2, 1>>) = 2

----------------------------------------------------------------------------
\* C16: remove_beeper on a cell whose count is zero changes nothing: every
\* attribute is as it was, and the beepers mapping holds the entries it held,
\* with no entry made for a cell that had none.
C16_RemoveAtZeroChangesNothing ==
    [][(call'.op = "remove_beeper"
            /\ Count(Beepers, <<call'.avenue, call'.street>>) = 0) =>
          self' = self /\ heap' = heap]_vars

----------------------------------------------------------------------------
\* C17: reload_world with a file that cannot be opened raises and changes
\* nothing: beepers, walls, dimensions, starting location, direction and
\* beeper count, init_speed and init_beepers are after the call what they
\* were before it.
C17_FailedOpenChangesNothing ==
    [][(call'.op = "reload_world" /\ call'.file.kind = "missing") =>
          /\ raised' = "FileNotFoundError"
          /\ self' = self
          /\ heap' = heap]_vars

\* a failed reload_world of a 2 x 1 world with a wall, whose beepers had
\* moved away from the snapshot
C17_Witness ==
    /\ call.op = "reload_world"
    /\ call.file.kind = "missing"
    /\ raised = "FileNotFoundError"
    /\ call.stale
    /\ self.walls # {}
    /\ self.num_avenues = 2

----------------------------------------------------------------------------
\* a line of a recognised keyword that lacks a parameter the keyword needs
LacksRequired(line) ==
    /\ line.colon
    /\ Keyword(line) \in VALID_WORLD_KEYWORDS
    /\ \E key \in Required(Keyword(line)) : ~Carries(line, key)

\* the attributes of the object but the snapshot
Live(st) == [k \in DOMAIN st.self \ {"init_beepers"} |-> View(st)[k]]

\* C18: when reload_world ends in KeyError on a line that lacks a parameter
\* its keyword needs, the object holds what the lines before that line make
\* of a new object, the line itself having changed nothing, and
\* init_beepers is still the snapshot of the last completed load; so the
\* reset_world that follows binds beepers to that earlier snapshot.
C18_AbortedReloadKeepsSnapshot ==
    /\ (call.op = "reload_world" /\ raised = "KeyError") =>
          \E i \in 1..Len(call.file.lines) :
              /\ LacksRequired(call.file.lines[i])
              /\ \A j \in 1..(i - 1) : ~LacksRequired(call.file.lines[j])
              /\ Live(Now) = Live(KarelWorld(File(SubSeq(call.file.lines, 1, i - 1))))
              /\ InitBeepers = captured
    /\ (call.op = "reset_world" /\ call.after_abort) => Beepers = captured

\* a reset_world right after an aborted reload_world, which found beepers
\* other than the snapshot and restored the non-empty mapping of the last
\* completed load
C18_Witness ==
    /\ call.op = "reset_world"
    /\ call.after_abort
    /\ call.stale
    /\ captured # EmptyDict

====
